---------------------------- MODULE Spec2Model ----------------------------
(***************************************************************************)
(* A model of the branch-promotion pipeline of jnpn/tranche: the two       *)
(* source variants src/glisse.rs (owned Box chain, JSON state file) and    *)
(* src/glisse3.rs (shared Rc chain, line-oriented text state file).        *)
(*                                                                         *)
(* Strings are sequences of one-character strings, so that the text state  *)
(* file of glisse3.rs is really formatted and parsed.  The repository      *)
(* (branch refs, tags, HEAD) is the external git tool's state; every git   *)
(* command is one step of the process.                                     *)
(***************************************************************************)
EXTENDS Integers, Sequences, FiniteSets, TLC

\* ------------------------------------------------------------------ bounds
MaxStages == 3      \* longest generic stage chain
MaxTags   == 2      \* size of the universe of tag names
MaxFaults == 1      \* injected faults (transient git failure, storage failure, kill) per behaviour
MaxHistoryLen == 2  \* round-trip specification: records per history

\* ----------------------------------------------------------------- strings
Digits == <<"0", "1", "2", "3", "4", "5", "6", "7", "8", "9">>

Dec(n) ==
    IF n < 10 THEN <<Digits[n + 1]>>
    ELSE <<Digits[(n \div 10) + 1], Digits[(n % 10) + 1]>>

dev     == <<"d", "e", "v">>
staging == <<"s", "t", "a", "g", "i", "n", "g">>
main    == <<"m", "a", "i", "n">>

\* the name of the k-th stage of a chain: the three of the user script, then more
NameOf(k) ==
    CASE k = 1 -> dev
      [] k = 2 -> staging
      [] k = 3 -> main
      [] OTHER -> <<"b">> \o Dec(k)

\* commit identifiers as `git rev-parse` prints them, and tag names as `git tag` prints them
Sha(n)     == <<"c">> \o Dec(n)
TagName(k) == <<"v">> \o Dec(k)
Tags       == {TagName(k) : k \in 1..MaxTags}

Range(s) == {s[k] : k \in DOMAIN s}

\* every ordering of a finite set as a sequence without repetition
Orderings(S) ==
    {s \in [1..Cardinality(S) -> S] : Range(s) = S}

\* str::split(d): the pieces between the delimiters, empty pieces included
\* the position of the first d in s from position k on, Len(s) + 1 if there is none
FirstAt(s, d, k) ==
    LET at == {j \in k..Len(s) : s[j] = d}
    IN  IF at = {} THEN Len(s) + 1 ELSE CHOOSE j \in at : \A m \in at : j <= m

RECURSIVE SplitFrom(_, _, _)
SplitFrom(s, d, k) ==
    LET j == FirstAt(s, d, k)
    IN  IF j > Len(s) THEN <<SubSeq(s, k, Len(s))>>
        ELSE <<SubSeq(s, k, j - 1)>> \o SplitFrom(s, d, j + 1)

Split(s, d) == SplitFrom(s, d, 1)

\* str::splitn(n, d): at most n pieces, the last one holding the rest unsplit
RECURSIVE SplitNFrom(_, _, _, _)
SplitNFrom(s, d, n, k) ==
    LET j == FirstAt(s, d, k)
    IN  IF n <= 1 \/ j > Len(s) THEN <<SubSeq(s, k, Len(s))>>
        ELSE <<SubSeq(s, k, j - 1)>> \o SplitNFrom(s, d, n - 1, j + 1)

SplitN(s, n, d) == SplitNFrom(s, d, n, 1)

\* [String]::join(d)
RECURSIVE Join(_, _)
Join(ss, d) ==
    IF ss = <<>> THEN <<>>
    ELSE IF Len(ss) = 1 THEN ss[1]
    ELSE ss[1] \o <<d>> \o Join(Tail(ss), d)

\* BufRead::lines(): the text cut at each newline, a carriage return before the
\* newline dropped with it; a final piece without a newline is a line, the empty
\* piece after a final newline is not
StripCR(line) ==
    IF Len(line) > 0 /\ line[Len(line)] = "\r" THEN SubSeq(line, 1, Len(line) - 1)
    ELSE line

Lines(text) ==
    LET parts == Split(text, "\n")
        kept  == IF parts[Len(parts)] = <<>> THEN SubSeq(parts, 1, Len(parts) - 1)
                 ELSE parts
    IN  [k \in 1..Len(kept) |-> StripCR(kept[k])]

RECURSIVE Concat(_)
Concat(ss) == IF ss = <<>> THEN <<>> ELSE ss[1] \o Concat(Tail(ss))

Reverse(s) == [k \in 1..Len(s) |-> s[Len(s) + 1 - k]]

IsPrefix(s, t) == Len(s) <= Len(t) /\ s = SubSeq(t, 1, Len(s))


\* ------------------------------------------------------- the stage chain
\* A hook is an opaque closure; the model keeps its identity and what its body
\* may do to the repository ("echo": spawns `sh -c echo`, "any": arbitrary).
Hook(k, j, effect) == [id |-> <<k, j>>, effect |-> effect]

\* Branch::new
Branch_new(name) == [name |-> name, hooks |-> <<>>, next_branch |-> <<>>]

\* Branch::when_merged
when_merged(branch, func) == [branch EXCEPT !.hooks = Append(@, func)]

\* glisse.rs: next_branch = Some(Box::new(next.clone())): the chain owns a copy
\* of `next` as it is at this moment
set_next_box(branch, next) == [branch EXCEPT !.next_branch = <<next>>]

\* glisse3.rs, Branch::then: next_branch = Some(next), a shared reference
then_rc(h, self_rc, next) == [h EXCEPT ![self_rc].next_branch = <<next>>]

\* main() of glisse.rs: staging and main are cloned into the chain before the
\* later statements change them
MainBox ==
    LET dev0     == Branch_new(dev)
        staging0 == Branch_new(staging)
        main0    == Branch_new(main)
        dev1     == set_next_box(dev0, staging0)
        staging1 == set_next_box(staging0, main0)
        staging2 == when_merged(staging1, Hook(2, 1, "echo"))
        main1    == when_merged(main0, Hook(3, 1, "echo"))
    IN  dev1

\* main() of glisse3.rs: the heap of Rc<RefCell<Branch>> cells, dev = 1,
\* staging = 2, main = 3
MainHeap ==
    LET h0 == <<Branch_new(dev), Branch_new(staging), Branch_new(main)>>
        h1 == then_rc(h0, 1, 2)
        h2 == then_rc(h1, 2, 3)
        h3 == [h2 EXCEPT ![2] = when_merged(@, Hook(2, 1, "echo"))]
        h4 == [h3 EXCEPT ![3] = when_merged(@, Hook(3, 1, "echo"))]
    IN  h4

\* the hooks a generic chain attaches to its k-th stage: one to the start stage,
\* two to the second stage, one to each later stage
ChainHooks(k) ==
    IF k = 2 THEN <<Hook(2, 1, "echo"), Hook(2, 2, "any")>>
    ELSE <<Hook(k, 1, "echo")>>

RECURSIVE WithHooks(_, _)
WithHooks(branch, hs) ==
    IF hs = <<>> THEN branch ELSE WithHooks(when_merged(branch, hs[1]), Tail(hs))

\* a chain of stages k..n assembled through the API of glisse.rs, tail first
RECURSIVE ChainBox(_, _)
ChainBox(k, n) ==
    LET b == WithHooks(Branch_new(NameOf(k)), ChainHooks(k))
    IN  IF k = n THEN b ELSE set_next_box(b, ChainBox(k + 1, n))

\* the same chain assembled through the API of glisse3.rs
RECURSIVE LinkHeap(_, _, _)
LinkHeap(h, k, n) == IF k >= n THEN h ELSE LinkHeap(then_rc(h, k, k + 1), k + 1, n)

ChainHeap(n) ==
    LinkHeap([k \in 1..n |-> WithHooks(Branch_new(NameOf(k)), ChainHooks(k))], 1, n)

\* a get_pipeline that advances before it pushes, and so leaves the start out
RECURSIVE PipelineFromNext(_)
PipelineFromNext(branch) ==
    IF Len(branch.next_branch) = 0 THEN <<>>
    ELSE <<branch.next_branch[1]>> \o PipelineFromNext(branch.next_branch[1])

\* DSLRunner::get_pipeline of glisse.rs: follow the owned next_branch boxes
RECURSIVE get_pipeline_box(_)
get_pipeline_box(branch) ==
    <<branch>> \o (IF Len(branch.next_branch) = 0 THEN <<>>
                   ELSE get_pipeline_box(branch.next_branch[1]))

\* DSLRunner::get_pipeline of glisse3.rs: follow the shared references
RECURSIVE get_pipeline_rc(_, _)
get_pipeline_rc(h, ref) ==
    <<h[ref]>> \o (IF Len(h[ref].next_branch) = 0 THEN <<>>
                   ELSE get_pipeline_rc(h, h[ref].next_branch[1]))

\* --------------------------------------------------------- the state file
MergeStep(target_branch, original_sha, tags_created) ==
    [target_branch |-> target_branch, original_sha |-> original_sha,
     tags_created |-> tags_created]

\* glisse3.rs save_state: one writeln! per step, "{} {} {}" with the tags joined by ','
StepLine(step) ==
    step.target_branch \o <<" ">> \o step.original_sha \o <<" ">>
        \o Join(step.tags_created, ",") \o <<"\n">>

save_state_txt(hist) == Concat([k \in 1..Len(hist) |-> StepLine(hist[k])])

\* a tag field split without the filter
SplitTags(field) == Split(field, ",")

\* glisse3.rs load_state, one line: splitn(3, ' '), the tags split at ',' with the
\* empty pieces filtered out; ok = FALSE when parts.next().unwrap() panics
ParseTags(field) == SelectSeq(Split(field, ","), LAMBDA t : t # <<>>)

ParseLine(line) ==
    LET parts == SplitN(line, 3, " ")
    IN  IF Len(parts) < 2
        THEN [ok |-> FALSE, step |-> MergeStep(parts[1], <<>>, <<>>)]
        ELSE [ok |-> TRUE,
              step |-> MergeStep(parts[1], parts[2],
                                 ParseTags(IF Len(parts) >= 3 THEN parts[3] ELSE <<>>))]

load_state_txt(text) ==
    LET ls == Lines(text)
        ps == [k \in 1..Len(ls) |-> ParseLine(ls[k])]
    IN  [ok |-> \A k \in 1..Len(ps) : ps[k].ok,
         steps |-> [k \in 1..Len(ps) |-> ps[k].step]]

\* serde_json, a string as a JSON string literal: between quotes, with the
\* quote, the backslash and the control characters escaped
JsonEscape(c) ==
    CASE c = "\"" -> <<"\\", "\"">>
      [] c = "\\" -> <<"\\", "\\">>
      [] c = "\n" -> <<"\\", "n">>
      [] c = "\r" -> <<"\\", "r">>
      [] OTHER    -> <<c>>

JsonString(str) ==
    <<"\"">> \o Concat([k \in 1..Len(str) |-> JsonEscape(str[k])]) \o <<"\"">>

\* serde_json reading the inside of a string literal from position k on
RECURSIVE JsonUnescape(_, _)
JsonUnescape(lit, k) ==
    IF k > Len(lit) THEN [ok |-> TRUE, str |-> <<>>]
    ELSE IF lit[k] = "\"" \/ lit[k] = "\n" \/ lit[k] = "\r"
    THEN [ok |-> FALSE, str |-> <<>>]
    ELSE IF lit[k] = "\\"
    THEN IF k = Len(lit) \/ lit[k + 1] \notin {"\"", "\\", "n", "r"}
         THEN [ok |-> FALSE, str |-> <<>>]
         ELSE LET rest == JsonUnescape(lit, k + 2)
                  c    == CASE lit[k + 1] = "n" -> "\n"
                            [] lit[k + 1] = "r" -> "\r"
                            [] OTHER -> lit[k + 1]
              IN  [ok |-> rest.ok, str |-> <<c>> \o rest.str]
    ELSE LET rest == JsonUnescape(lit, k + 1)
         IN  [ok |-> rest.ok, str |-> <<lit[k]>> \o rest.str]

FromJsonString(lit) ==
    IF Len(lit) < 2 \/ lit[1] # "\"" \/ lit[Len(lit)] # "\""
    THEN [ok |-> FALSE, str |-> <<>>]
    ELSE JsonUnescape(SubSeq(lit, 2, Len(lit) - 1), 1)

\* glisse.rs save_state: serde_json::to_string_pretty(&history), a JSON array of
\* objects with three members each; the text is kept as its opening bracket, its
\* objects (their members as string literals) and its closing bracket, so that an
\* empty or cut file is not a document
JsonObject(step) ==
    MergeStep(JsonString(step.target_branch), JsonString(step.original_sha),
              [k \in 1..Len(step.tags_created) |-> JsonString(step.tags_created[k])])

save_state_json(hist) ==
    [open |-> TRUE, items |-> [k \in 1..Len(hist) |-> JsonObject(hist[k])],
     closed |-> TRUE]

EmptyJson == [open |-> FALSE, items |-> <<>>, closed |-> FALSE]

\* one object of the array read back into a MergeStep
FromJsonObject(obj) ==
    LET t  == FromJsonString(obj.target_branch)
        o  == FromJsonString(obj.original_sha)
        ts == [k \in 1..Len(obj.tags_created) |-> FromJsonString(obj.tags_created[k])]
    IN  [ok |-> t.ok /\ o.ok /\ \A k \in 1..Len(ts) : ts[k].ok,
         step |-> MergeStep(t.str, o.str, [k \in 1..Len(ts) |-> ts[k].str])]

\* glisse.rs unwind: serde_json::from_reader(reader); ok = FALSE when unwrap() panics
from_reader_json(text) ==
    LET ps == [k \in 1..Len(text.items) |-> FromJsonObject(text.items[k])]
    IN  IF text.open /\ text.closed /\ \A k \in 1..Len(ps) : ps[k].ok
        THEN [ok |-> TRUE, steps |-> [k \in 1..Len(ps) |-> ps[k].step]]
        ELSE [ok |-> FALSE, steps |-> <<>>]


\* ------------------------------------------------------------------ state
VARIABLES
    variant,      \* "glisse" (src/glisse.rs) or "glisse3" (src/glisse3.rs)
    start_node,   \* DSLRunner.start_node: the owned chain, or a reference into heap
    heap,         \* glisse3.rs: the Rc<RefCell<Branch>> cells
    refs,         \* git: branch name -> commit, NoRef when the branch does not exist
    tags,         \* git: the tag names
    head,         \* git: the branch that is checked out
    ncommits,     \* git: commits made so far
    file,         \* the state file (STATE_FILE) in the working directory
    mode,         \* "run" or "undo": whether --undo was given
    pc,           \* where the process is; "off" when no process runs
    exit_code,    \* how the last process ended
    history,      \* DSLRunner.history
    i,            \* execute: the loop index
    pre_tags,     \* execute: let pre_tags
    target_sha,   \* execute: let target_sha
    post_tags,    \* execute: let post_tags
    step,         \* execute: let mut step
    ret,          \* save_state: where execute goes on after it
    wr,           \* save_state of glisse3.rs: lines written so far
    hk,           \* execute: hooks of the target called so far
    steps,        \* unwind: let steps
    u,            \* unwind: steps still to roll back
    tg,           \* unwind: tags of the step deleted so far
    ops,          \* the git commands the process has issued, with their outcome
    out,          \* the lines the process has printed
    hooks_run,    \* the hook calls the process has made
    faults,       \* faults injected so far
    allowed,      \* the kinds of fault the environment may show
    plan,         \* the sequences of invocations the operator may go through
    invocations,  \* the modes of the processes started so far
    last_run      \* the repository when the last forward run started, and how it went

config == <<variant, start_node, heap>>
repo   == <<refs, tags, head, ncommits>>
execL  == <<i, pre_tags, target_sha, post_tags, step, ret, wr, hk>>
undoL  == <<steps, u, tg>>
locals == <<history, execL, undoL>>
trace  == <<ops, out, hooks_run>>
budget == <<faults, allowed, plan>>
vars   == <<config, repo, file, mode, pc, exit_code, locals, trace, budget,
           invocations, last_run>>

Variants    == {"glisse", "glisse3"}
BranchNames == {NameOf(k) : k \in 1..MaxStages}
NoRef       == <<>>
NoStep      == MergeStep(<<>>, <<>>, <<>>)

EmptyText == IF variant = "glisse" THEN EmptyJson ELSE <<>>
NoFile    == [exists |-> FALSE, text |-> EmptyText]

\* the pipeline execute() works on: let pipeline = self.get_pipeline()
Pipeline ==
    IF variant = "glisse" THEN get_pipeline_box(start_node)
    ELSE get_pipeline_rc(heap, start_node)

\* a loop that stops one transition early (for i in 0..pipeline.len() - 2)
LoopStopsEarly(len, k) == k < len - 2

\* for i in 0..pipeline.len() - 1
LoopContinues(len, k) == k < len - 1

\* let src = pipeline[i]; let tgt = pipeline[i+1]   (k counts from 0)
SrcOf(p, k) == p[k + 1]
TgtOf(p, k) == p[k + 2]

\* a provisional record that leaves the SHA out
StepWithoutSha(tgt, sha) == MergeStep(tgt.name, <<>>, <<>>)

\* MergeStep { target_branch: tgt.name.clone(), original_sha: target_sha,
\* tags_created: Vec::new() }
ProvisionalStep(tgt, sha) == MergeStep(tgt.name, sha, <<>>)

\* a difference that forgets to subtract
AllPostTags(post, pre) == post

\* post_tags.difference(&pre_tags)
TagDiff(post, pre) == post \ pre

\* .cloned().collect() of a HashSet iterator: the elements once each, in an
\* order the hasher decides
CollectVec(S) == Orderings(S)

\* save_state: what the state file holds once the call has returned
save_state(hist) ==
    IF variant = "glisse" THEN save_state_json(hist) ELSE save_state_txt(hist)

\* what unwind reads back from the state file's text
ReadBack(text) ==
    IF variant = "glisse" THEN from_reader_json(text) ELSE load_state_txt(text)

\* a loop over steps.iter(), oldest first
ForwardIndex(len, k) == len + 1 - k

\* for step in steps.iter().rev(): the index of the step rolled back when k are left
RollbackIndex(len, k) == k

\* what `git rev-parse <rev>` / `git reset --hard <rev>` take rev to be: a commit
\* identifier, or a branch name; <<>> when it names nothing
Commits == {Sha(k) : k \in 1..ncommits}

\* a reset that stays where HEAD is whatever revision it is given
ResolveToHead(rev) == refs[head]

Resolve(rev) ==
    IF rev \in Commits THEN rev
    ELSE IF rev \in BranchNames THEN refs[rev]
    ELSE NoRef

Op(cmd, arg, ok) == [cmd |-> cmd, arg |-> arg, ok |-> ok]
Say(kind, a, b)  == [kind |-> kind, a |-> a, b |-> b]

\* the process ends: its memory is gone
Exit(code) ==
    /\ pc' = "off"
    /\ exit_code' = code
    /\ history' = <<>>
    /\ i' = 0
    /\ pre_tags' = {}
    /\ target_sha' = <<>>
    /\ post_tags' = {}
    /\ step' = NoStep
    /\ ret' = "off"
    /\ wr' = 0
    /\ hk' = 0
    /\ steps' = <<>>
    /\ u' = 0
    /\ tg' = 0

\* a fault of a kind the environment shows may be injected while the budget lasts
MayFault(kind, fault) == fault => (kind \in allowed /\ faults < MaxFaults)
Count(fault) ==
    /\ faults' = faults + (IF fault THEN 1 ELSE 0)
    /\ UNCHANGED <<allowed, plan>>

\* the sequences of invocations a behaviour goes through (each a forward run or
\* an --undo), and their beginnings
RunThenUndo == {<<"undo">>, <<"run", "undo", "undo">>}
RoundTrip   == {<<"save", "load">>}
RunTwice    == {<<"run", "run", "undo">>}
MaySchedule(ms) == \E sch \in plan : IsPrefix(ms, sch)

\* the kinds of fault: a failing `git tag` query, a failing checkout or merge, a
\* failing git command of unwind, a file that cannot be created or written, and
\* the process being stopped
GitFaults   == {"query", "command", "undo"}
CrashFaults == {"storage", "kill"}

\* the state before the first invocation, in an environment that shows the
\* given kinds of fault
InitWith(kinds, schedules) ==
    /\ variant \in Variants
    /\ \E n \in 0..MaxStages :
          /\ start_node = IF variant = "glisse3" THEN 1
                          ELSE IF n = 0 THEN MainBox ELSE ChainBox(1, n)
          /\ heap = IF variant = "glisse" THEN <<>>
                    ELSE IF n = 0 THEN MainHeap ELSE ChainHeap(n)
    /\ \E missing \in {0, Len(Pipeline)} \ {1} :
          refs = [b \in BranchNames |->
                    LET k == CHOOSE k \in 1..MaxStages : NameOf(k) = b
                    IN  IF k = missing THEN NoRef ELSE Sha(k)]
    /\ tags = {TagName(1)}
    /\ head = dev
    /\ ncommits = MaxStages
    /\ file = NoFile
    /\ mode = "run"
    /\ pc = "off"
    /\ exit_code = "none"
    /\ history = <<>>
    /\ i = 0
    /\ pre_tags = {}
    /\ target_sha = <<>>
    /\ post_tags = {}
    /\ step = NoStep
    /\ ret = "off"
    /\ wr = 0
    /\ hk = 0
    /\ steps = <<>>
    /\ u = 0
    /\ tg = 0
    /\ ops = <<>>
    /\ out = <<>>
    /\ hooks_run = <<>>
    /\ faults = 0
    /\ allowed = kinds
    /\ plan = schedules
    /\ invocations = <<>>
    /\ last_run = [started |-> FALSE, fresh |-> FALSE, clean |-> FALSE,
                   queries_ok |-> FALSE, completed |-> FALSE, failed_at |-> -1,
                   refs |-> refs, tags |-> tags]

Init == InitWith(GitFaults, RunThenUndo)


\* ------------------------------------------------------------ forward run
\* a runner that starts from the log an earlier run left
LoadedAtStart(f) == IF f.exists /\ ReadBack(f.text).ok THEN ReadBack(f.text).steps ELSE <<>>

\* DSLRunner::new: history: Vec::new(), whatever state file f there is
DSLRunner_new(f) == <<>>

\* main(): DSLRunner::new(dev), then execute() or, with --undo, unwind()
Start(m) ==
    /\ pc = "off"
    /\ MaySchedule(Append(invocations, m))
    /\ invocations' = Append(invocations, m)
    /\ mode' = m
    /\ pc' = IF m = "run" THEN "loop" ELSE "unwind"
    /\ exit_code' = "none"
    /\ history' = DSLRunner_new(file)
    /\ ops' = <<>>
    /\ out' = <<>>
    /\ hooks_run' = <<>>
    /\ last_run' = IF m = "run"
                   THEN [started |-> TRUE, fresh |-> ~file.exists, clean |-> TRUE,
                         queries_ok |-> TRUE, completed |-> FALSE, failed_at |-> -1,
                         refs |-> refs, tags |-> tags]
                   ELSE last_run
    /\ UNCHANGED <<config, repo, file, execL, undoL, budget>>

\* the head of the for loop: the next transition is announced, or the run completes
Loop ==
    /\ pc = "loop"
    /\ IF LoopContinues(Len(Pipeline), i)
       THEN /\ out' = Append(out, Say("Merging", SrcOf(Pipeline, i).name,
                                      TgtOf(Pipeline, i).name))
            /\ pc' = "get_tags"
            /\ UNCHANGED <<exit_code, locals, last_run>>
       ELSE /\ out' = Append(out, Say("Pipeline Complete.", <<>>, <<>>))
            /\ last_run' = [last_run EXCEPT !.completed = TRUE]
            /\ Exit("0")
    /\ UNCHANGED <<config, repo, file, mode, ops, hooks_run, budget, invocations>>

\* get_tags: the lines `git tag` prints; its exit status is not looked at, and a
\* failed call prints nothing
get_tags(ok) == IF ok THEN tags ELSE {}

\* let pre_tags = self.get_tags()
GetTagsPre ==
    /\ pc = "get_tags"
    /\ \E fault \in BOOLEAN :
          /\ MayFault("query", fault)
          /\ Count(fault)
          /\ pre_tags' = get_tags(~fault)
          /\ ops' = Append(ops, Op("tag", <<>>, ~fault))
          /\ last_run' = [last_run EXCEPT !.queries_ok = @ /\ ~fault]
    /\ pc' = "get_sha"
    /\ UNCHANGED <<config, repo, file, mode, exit_code, history, i, target_sha,
                   post_tags, step, ret, wr, hk, undoL, out, hooks_run, invocations>>

\* get_sha: the trimmed standard output of `git rev-parse <branch>`, whatever the
\* exit status; for a name that is no revision, rev-parse echoes the name on its
\* standard output before it fails
get_sha(branch) == IF refs[branch] # NoRef THEN refs[branch] ELSE branch

\* let target_sha = self.get_sha(&tgt.name)
GetSha ==
    /\ pc = "get_sha"
    /\ LET tgt == TgtOf(Pipeline, i)
           ok  == refs[tgt.name] # NoRef
       IN  /\ target_sha' = get_sha(tgt.name)
           /\ ops' = Append(ops, Op("rev-parse", tgt.name, ok))
           /\ last_run' = [last_run EXCEPT !.queries_ok = @ /\ ok]
    /\ pc' = "push"
    /\ UNCHANGED <<config, repo, file, mode, exit_code, history, i, pre_tags,
                   post_tags, step, ret, wr, hk, undoL, out, hooks_run, budget,
                   invocations>>

\* File::create(STATE_FILE): the file exists and is empty
Truncated == [exists |-> TRUE, text |-> EmptyText]

\* a save_state that drops the error of File::create (if let Ok(mut file) = ..)
ErrorDropped(failed) == FALSE

\* File::create(STATE_FILE).unwrap(): the process panics when the file cannot
\* be created
UnwrapPanics(failed) == failed

\* history.push(step.clone()); self.save_state(): the file is created (truncated);
\* were the error of a failed File::create not fatal, save_state would write
\* nothing and execute would go on with the checkout
ProvisionalLog ==
    /\ pc = "push"
    /\ \E fault \in BOOLEAN :
          /\ MayFault("storage", fault)
          /\ Count(fault)
          /\ IF UnwrapPanics(fault)
             THEN /\ Exit("101")
                  /\ UNCHANGED file
             ELSE /\ step' = ProvisionalStep(TgtOf(Pipeline, i), target_sha)
                  /\ history' = Append(history, step')
                  /\ file' = IF fault THEN file ELSE Truncated
                  /\ pc' = IF fault THEN "checkout" ELSE "write"
                  /\ ret' = "checkout"
                  /\ wr' = 0
                  /\ UNCHANGED <<exit_code, i, pre_tags, target_sha, post_tags, hk,
                                 undoL>>
    /\ UNCHANGED <<config, repo, mode, trace, invocations, last_run>>

\* save_state after File::create: glisse.rs writes the document in one
\* write_all, glisse3.rs one line per step; a failed write panics (unwrap)
WritesNeeded == IF variant = "glisse" THEN 1 ELSE Len(history)

WriteState ==
    /\ pc = "write"
    /\ \E fault \in BOOLEAN :
          /\ MayFault("storage", fault)
          /\ Count(fault)
          /\ IF fault
             THEN /\ Exit("101")
                  /\ UNCHANGED file
             ELSE /\ file' = [file EXCEPT !.text =
                                IF variant = "glisse" THEN save_state_json(history)
                                ELSE @ \o StepLine(history[wr + 1])]
                  /\ IF wr + 1 >= WritesNeeded
                     THEN pc' = ret /\ wr' = 0
                     ELSE pc' = "write" /\ wr' = wr + 1
                  /\ UNCHANGED <<exit_code, history, i, pre_tags, target_sha,
                                 post_tags, step, ret, hk, undoL>>
    /\ UNCHANGED <<config, repo, mode, trace, invocations, last_run>>

\* self.git(&["checkout", &tgt.name]): on failure eprintln! and exit(1)
Checkout ==
    /\ pc = "checkout"
    /\ LET tgt == TgtOf(Pipeline, i)
       IN  \E fault \in BOOLEAN :
             /\ MayFault("command", fault)
             /\ fault => refs[tgt.name] # NoRef
             /\ Count(fault)
             /\ LET ok == refs[tgt.name] # NoRef /\ ~fault
                IN  /\ ops' = Append(ops, Op("checkout", tgt.name, ok))
                    /\ IF ok
                       THEN /\ head' = tgt.name
                            /\ pc' = "merge"
                            /\ UNCHANGED <<exit_code, locals, out, last_run>>
                       ELSE /\ out' = Append(out, Say("Error", <<>>, <<>>))
                            /\ last_run' = [last_run EXCEPT !.failed_at = i]
                            /\ Exit("1")
                            /\ UNCHANGED head
    /\ UNCHANGED <<config, refs, tags, ncommits, file, mode, hooks_run, invocations>>

\* what a merge may do to the tags (the tool's own hooks): a new tag may appear
\* and a tag may vanish
MergeTagEffects(T) ==
    {(T \ R) \cup A : R \in {{}} \cup {{t} : t \in T},
                      A \in {{}} \cup {{t} : t \in Tags \ T}}

\* self.git(&["merge", &src.name, "--no-ff", "-m", ..]): a merge commit on the
\* branch that is checked out; on failure eprintln! and exit(1)
Merge ==
    /\ pc = "merge"
    /\ LET src == SrcOf(Pipeline, i)
       IN  \E fault \in BOOLEAN :
             /\ MayFault("command", fault)
             /\ fault => refs[src.name] # NoRef
             /\ Count(fault)
             /\ LET ok == refs[src.name] # NoRef /\ ~fault
                IN  /\ ops' = Append(ops, Op("merge", src.name, ok))
                    /\ IF ok
                       THEN /\ ncommits' = ncommits + 1
                            /\ refs' = [refs EXCEPT ![head] = Sha(ncommits + 1)]
                            /\ tags' \in MergeTagEffects(tags)
                            /\ last_run' = [last_run EXCEPT
                                              !.clean = @ /\ tags \subseteq tags']
                            /\ pc' = "post_capture"
                            /\ UNCHANGED <<exit_code, locals, out>>
                       ELSE /\ out' = Append(out, Say("Error", <<>>, <<>>))
                            /\ last_run' = [last_run EXCEPT !.failed_at = i]
                            /\ Exit("1")
                            /\ UNCHANGED <<refs, tags, ncommits>>
    /\ UNCHANGED <<config, head, file, mode, hooks_run, invocations>>

\* a finalization that pushes the step again instead of updating the last record
PushedAgain(hist, created) ==
    Append(hist, [hist[Len(hist)] EXCEPT !.tags_created = created])

\* self.history.last_mut().unwrap().tags_created = step.tags_created.clone()
Finalized(hist, created) == [hist EXCEPT ![Len(hist)].tags_created = created]

\* let post_tags = self.get_tags(); step.tags_created = difference; the last
\* record of the history is updated; self.save_state() creates the file anew
PostCapture ==
    /\ pc = "post_capture"
    /\ \E fault \in BOOLEAN, sfault \in BOOLEAN :
          /\ MayFault("query", fault)
          /\ MayFault("storage", sfault)
          /\ ~(fault /\ sfault)
          /\ Count(fault \/ sfault)
          /\ ops' = Append(ops, Op("tag", <<>>, ~fault))
          /\ last_run' = [last_run EXCEPT !.queries_ok = @ /\ ~fault]
          /\ \E created \in CollectVec(TagDiff(get_tags(~fault), pre_tags)) :
                IF sfault
                THEN /\ Exit("101")
                     /\ UNCHANGED file
                ELSE /\ post_tags' = get_tags(~fault)
                     /\ step' = [step EXCEPT !.tags_created = created]
                     /\ history' = Finalized(history, created)
                     /\ file' = Truncated
                     /\ pc' = "write"
                     /\ ret' = "hooks"
                     /\ wr' = 0
                     /\ hk' = 0
                     /\ UNCHANGED <<exit_code, i, pre_tags, target_sha, undoL>>
    /\ UNCHANGED <<config, repo, mode, out, hooks_run, invocations>>

\* what the body of a hook may do to the tags: an "echo" hook nothing, any other
\* hook nothing or one more tag
HookTagEffects(hook, T) ==
    {T} \cup (IF hook.effect = "any" THEN {T \cup {t} : t \in Tags \ T} ELSE {})

\* a loop over the hooks from the last one attached (tgt.hooks.iter().rev())
HookFromEnd(hooks, n) == hooks[Len(hooks) - n]

\* for hook in &tgt.hooks: the hook called when n of them have been
HookAt(hooks, n) == hooks[n + 1]

\* for hook in &tgt.hooks { hook(&ctx) }: the next hook of the target is called
\* with the step and the source's name
RunHook ==
    /\ pc = "hooks"
    /\ hk < Len(TgtOf(Pipeline, i).hooks)
    /\ LET hook == HookAt(TgtOf(Pipeline, i).hooks, hk)
       IN  /\ hooks_run' = Append(hooks_run,
                                  [hook |-> hook.id, step |-> step,
                                   source |-> SrcOf(Pipeline, i).name])
           /\ tags' \in HookTagEffects(hook, tags)
           /\ last_run' = [last_run EXCEPT !.clean = @ /\ tags' = tags]
    /\ hk' = hk + 1
    /\ UNCHANGED <<config, refs, head, ncommits, file, mode, pc, exit_code, history, i,
                   pre_tags, target_sha, post_tags, step, ret, wr, undoL, ops, out,
                   budget, invocations>>

\* the end of the loop body: on to the next transition
NextTransition ==
    /\ pc = "hooks"
    /\ hk >= Len(TgtOf(Pipeline, i).hooks)
    /\ i' = i + 1
    /\ pc' = "loop"
    /\ hk' = 0
    /\ UNCHANGED <<config, repo, file, mode, exit_code, history, pre_tags, target_sha,
                   post_tags, step, ret, wr, undoL, trace, budget, invocations,
                   last_run>>

\* ------------------------------------------------------------------- undo
RefOf(b) == IF b \in BranchNames THEN refs[b] ELSE NoRef

\* what unwind has in hand once it has looked at the state file: glisse3.rs
\* load_state returns Vec::new() when there is no file
LoadForUnwind ==
    IF ~file.exists THEN [ok |-> TRUE, steps |-> <<>>] ELSE ReadBack(file.text)

\* an unwind without the test
NeverNothing(absent, r) == FALSE

\* the test before "Nothing to unwind.": glisse.rs !Path::new(STATE_FILE).exists(),
\* glisse3.rs steps.is_empty()
NothingToUnwind(absent, r) ==
    IF variant = "glisse" THEN absent ELSE r.ok /\ Len(r.steps) = 0

\* an unwind that propagates the error of a git command (self.git(..)?)
StopsOnError(ok) == ok

\* let _ = self.git(..): the Result of a git command of unwind is dropped, the
\* loop goes on whatever it was
GoesOn(ok) == TRUE

\* unwind, up to the loop
UnwindLoad ==
    /\ pc = "unwind"
    /\ LET r == LoadForUnwind
       IN  IF NothingToUnwind(~file.exists, r)
           THEN /\ out' = Append(out, Say("Nothing to unwind.", <<>>, <<>>))
                /\ Exit("0")
           ELSE IF ~r.ok
           THEN /\ Exit("101")
                /\ UNCHANGED out
           ELSE /\ steps' = r.steps
                /\ u' = Len(r.steps)
                /\ pc' = "rollback"
                /\ UNCHANGED <<exit_code, history, execL, tg, out>>
    /\ UNCHANGED <<config, repo, file, mode, ops, hooks_run, budget, invocations,
                   last_run>>

\* the head of the loop over steps.iter().rev(): the next step is announced
Rollback ==
    /\ pc = "rollback"
    /\ u >= 1
    /\ out' = Append(out, Say("Rolling back",
                              steps[RollbackIndex(Len(steps), u)].target_branch, <<>>))
    /\ tg' = 0
    /\ pc' = "del_tags"
    /\ UNCHANGED <<config, repo, file, mode, exit_code, history, execL, steps, u, ops,
                   hooks_run, budget, invocations, last_run>>

\* let _ = self.git(&["tag", "-d", tag])
DeleteTag ==
    /\ pc = "del_tags"
    /\ LET cur == steps[RollbackIndex(Len(steps), u)]
       IN  /\ tg < Len(cur.tags_created)
           /\ LET t == cur.tags_created[tg + 1]
              IN  \E fault \in BOOLEAN :
                    /\ MayFault("undo", fault)
                    /\ fault => t \in tags
                    /\ Count(fault)
                    /\ LET ok == t \in tags /\ ~fault
                       IN  /\ ops' = Append(ops, Op("tag -d", t, ok))
                           /\ tags' = IF ok THEN tags \ {t} ELSE tags
                           /\ IF GoesOn(ok)
                              THEN /\ pc' = "del_tags"
                                   /\ tg' = tg + 1
                                   /\ UNCHANGED <<exit_code, history, execL, steps, u>>
                              ELSE Exit("1")
    /\ UNCHANGED <<config, refs, head, ncommits, file, mode, out, hooks_run,
                   invocations, last_run>>

\* let _ = self.git(&["checkout", &step.target_branch])
UndoCheckout ==
    /\ pc = "del_tags"
    /\ LET cur == steps[RollbackIndex(Len(steps), u)]
       IN  /\ tg >= Len(cur.tags_created)
           /\ \E fault \in BOOLEAN :
                 /\ MayFault("undo", fault)
                 /\ fault => RefOf(cur.target_branch) # NoRef
                 /\ Count(fault)
                 /\ LET ok == RefOf(cur.target_branch) # NoRef /\ ~fault
                    IN  /\ ops' = Append(ops, Op("checkout", cur.target_branch, ok))
                        /\ head' = IF ok THEN cur.target_branch ELSE head
                        /\ IF GoesOn(ok)
                           THEN /\ pc' = "undo_reset"
                                /\ UNCHANGED <<exit_code, history, execL, undoL>>
                           ELSE Exit("1")
    /\ UNCHANGED <<config, refs, tags, ncommits, file, mode, out, hooks_run,
                   invocations, last_run>>

\* let _ = self.git(&["reset", "--hard", &step.original_sha]): moves the branch
\* that is checked out
UndoReset ==
    /\ pc = "undo_reset"
    /\ LET cur == steps[RollbackIndex(Len(steps), u)]
           rev == Resolve(cur.original_sha)
       IN  \E fault \in BOOLEAN :
             /\ MayFault("undo", fault)
             /\ fault => rev # NoRef
             /\ Count(fault)
             /\ LET ok == rev # NoRef /\ ~fault
                IN  /\ ops' = Append(ops, Op("reset --hard", cur.original_sha, ok))
                    /\ refs' = IF ok THEN [refs EXCEPT ![head] = rev] ELSE refs
                    /\ IF GoesOn(ok)
                       THEN /\ pc' = "rollback"
                            /\ u' = u - 1
                            /\ UNCHANGED <<exit_code, history, execL, steps, tg>>
                       ELSE Exit("1")
    /\ UNCHANGED <<config, tags, head, ncommits, file, mode, out, hooks_run,
                   invocations, last_run>>

\* an unwind that leaves the state file in place
FileKept(f) == f

\* remove_file(STATE_FILE): the file is gone
FileRemoved(f) == NoFile

\* let _ = remove_file(STATE_FILE); println!("Unwind complete.")
RemoveFile ==
    /\ pc = "rollback"
    /\ u = 0
    /\ file' = FileRemoved(file)
    /\ out' = Append(out, Say("Unwind complete.", <<>>, <<>>))
    /\ Exit("0")
    /\ UNCHANGED <<config, repo, mode, ops, hooks_run, budget, invocations, last_run>>

\* the process is stopped from outside at any point
Kill ==
    /\ pc # "off"
    /\ MayFault("kill", TRUE)
    /\ Count(TRUE)
    /\ Exit("killed")
    /\ UNCHANGED <<config, repo, file, mode, trace, invocations, last_run>>

Next ==
    \/ Start("run")
    \/ Start("undo")
    \/ Loop
    \/ GetTagsPre
    \/ GetSha
    \/ ProvisionalLog
    \/ WriteState
    \/ Checkout
    \/ Merge
    \/ PostCapture
    \/ RunHook
    \/ NextTransition
    \/ UnwindLoad
    \/ Rollback
    \/ DeleteTag
    \/ UndoCheckout
    \/ UndoReset
    \/ RemoveFile

Spec == Init /\ [][Next]_vars

\* the same program in an environment where the state file cannot always be
\* written and the process may be stopped at any point
InitCrash == InitWith(CrashFaults, RunThenUndo)

NextCrash == Next \/ Kill

SpecCrash == InitCrash /\ [][NextCrash]_vars

\* the same program when the operator runs the pipeline forward twice and then
\* undoes, in an environment where a checkout or a merge may fail
InitTwice == InitWith({"command"}, RunTwice)

SpecTwice == InitTwice /\ [][Next]_vars

\* ------------------------------------------------- state file round trip
\* The state file on its own: a history is put together record by record, one
\* process saves it, another loads it.  `history` stays as it was saved, `steps`
\* is what was loaded.

\* names a record may hold: branch names as the pipeline's author wrote them with
\* the SHA recorded for them (rev-parse echoes a name that is no revision), and
\* tag names as `git tag` prints them; some of them hold a space, a comma, a
\* newline, a quote or a backslash
RTTargets ==
    {<<staging, Sha(2)>>, <<<<"q", "\\">>, <<"q", "\\">>>>,
     <<<<"r", " ", "1">>, Sha(1)>>, <<<<"x", "\n">>, Sha(3)>>}
RTTagNames == Tags \cup {<<"v", ",", "1">>, <<"v", "\"">>}

Delimiters == {" ", ",", "\n"}
DelimiterFreeName(name) == \A k \in 1..Len(name) : name[k] \notin Delimiters
DelimiterFree(hist) ==
    \A k \in 1..Len(hist) :
       /\ DelimiterFreeName(hist[k].target_branch)
       /\ DelimiterFreeName(hist[k].original_sha)
       /\ \A j \in 1..Len(hist[k].tags_created) :
             DelimiterFreeName(hist[k].tags_created[j])

TagsIn(hist) == UNION {Range(hist[k].tags_created) : k \in 1..Len(hist)}

InitRT == InitWith({}, RoundTrip) /\ Len(Pipeline) = 1

\* self.history.push(step.clone()) with a provisional record
RTPush ==
    /\ pc = "off"
    /\ invocations = <<>>
    /\ MaySchedule(<<"save">>)
    /\ Len(history) < MaxHistoryLen
    /\ \E ts \in RTTargets :
          history' = Append(history, MergeStep(ts[1], ts[2], <<>>))
    /\ UNCHANGED <<config, repo, file, mode, pc, exit_code, execL, undoL, trace,
                   budget, invocations, last_run>>

\* last.tags_created grows by a tag no record holds yet
RTTag ==
    /\ pc = "off"
    /\ invocations = <<>>
    /\ MaySchedule(<<"save">>)
    /\ Len(history) > 0
    /\ Cardinality(TagsIn(history)) < MaxTags
    /\ \E t \in RTTagNames \ TagsIn(history) :
          history' = [history EXCEPT ![Len(history)].tags_created = Append(@, t)]
    /\ UNCHANGED <<config, repo, file, mode, pc, exit_code, execL, undoL, trace,
                   budget, invocations, last_run>>

\* self.save_state()
RTSave ==
    /\ pc = "off"
    /\ invocations = <<>>
    /\ MaySchedule(<<"save">>)
    /\ file' = [exists |-> TRUE, text |-> save_state(history)]
    /\ invocations' = <<"save">>
    /\ UNCHANGED <<config, repo, mode, pc, exit_code, locals, trace, budget, last_run>>

\* glisse3.rs load_state(), glisse.rs the from_reader(..).unwrap() of unwind
RTLoad ==
    /\ pc = "off"
    /\ invocations = <<"save">>
    /\ MaySchedule(<<"save", "load">>)
    /\ LET r == ReadBack(file.text)
       IN  /\ steps' = r.steps
           /\ exit_code' = IF r.ok THEN "0" ELSE "101"
    /\ invocations' = <<"save", "load">>
    /\ UNCHANGED <<config, repo, file, mode, pc, history, execL, u, tg, trace, budget,
                   last_run>>

NextRT ==
    \/ RTPush
    \/ RTTag
    \/ RTSave
    \/ RTLoad

SpecRT == InitRT /\ [][NextRT]_vars

\* ------------------------------------------------------------ properties
\* the git commands issued so far, as <<command, argument>>, restricted to cmds
Issued(cmds) ==
    LET sel == SelectSeq(ops, LAMBDA o : o.cmd \in cmds)
    IN  [k \in 1..Len(sel) |-> <<sel[k].cmd, sel[k].arg>>]

Printed(kind) == SelectSeq(out, LAMBDA l : l.kind = kind)

Mutating == {"checkout", "merge"}
Queries  == {"tag", "rev-parse"}

AllOk == \A k \in 1..Len(ops) : ops[k].ok

\* the checkouts and merges of a run over stages P that goes through, in order
ForwardOps(P) ==
    Concat([j \in 1..Len(P) - 1 |->
              << <<"checkout", P[j + 1].name>>, <<"merge", P[j].name>> >>])

ForwardLines(P) ==
    [j \in 1..Len(P) - 1 |-> Say("Merging", P[j].name, P[j + 1].name)]

\* C1: a forward run over the pipeline [s0, ..., sn] announces and performs the
\* transitions (s0,s1), (s1,s2), ... in that order, each once: at every moment
\* what it has done is a beginning of that sequence, and when it ends with
\* "Pipeline Complete." it has done all of it with every command succeeding
C1_TransitionOrder ==
    mode = "run" =>
       /\ IsPrefix(Issued(Mutating), ForwardOps(Pipeline))
       /\ IsPrefix(Printed("Merging"), ForwardLines(Pipeline))
       /\ Len(Issued(Mutating)) \in {2 * Len(Printed("Merging")),
                                     2 * Len(Printed("Merging")) - 1,
                                     2 * Len(Printed("Merging")) - 2}
       /\ (pc = "off" /\ exit_code = "0") =>
             /\ Issued(Mutating) = ForwardOps(Pipeline)
             /\ Printed("Merging") = ForwardLines(Pipeline)
             /\ \A k \in 1..Len(ops) : ops[k].cmd \in Mutating => ops[k].ok

C1_Witness ==
    /\ mode = "run"
    /\ pc = "off"
    /\ exit_code = "0"
    /\ Len(Pipeline) >= 3
    /\ Len(Issued(Mutating)) = 2 * (Len(Pipeline) - 1)

\* what the state file holds, read back
Durable == ReadBack(file.text)

\* C2: in a forward run the record of the current transition is in the state
\* file, with the target's name, the SHA read for it and no tags, before the
\* checkout or the merge of that transition is issued and until the tags are
\* captured; once they are, the file holds the record with the computed tags
C2_WriteAhead ==
    mode = "run" =>
       /\ (pc \in {"loop", "get_tags", "get_sha", "push"} \/ (pc = "write" /\ ret = "checkout"))
             => Len(Issued(Mutating)) = 2 * i
       /\ pc \in {"checkout", "merge", "post_capture"} =>
             /\ file.exists
             /\ Durable = [ok |-> TRUE, steps |-> history]
             /\ Len(history) = i + 1
             /\ history[i + 1] = MergeStep(Pipeline[i + 2].name, target_sha, <<>>)
             /\ (pc # "post_capture" /\ refs[Pipeline[i + 2].name] # NoRef)
                   => history[i + 1].original_sha = refs[Pipeline[i + 2].name]
             /\ Len(Issued(Mutating)) = 2 * i + (CASE pc = "checkout" -> 0
                                                  [] pc = "merge" -> 1
                                                  [] OTHER -> 2)
       /\ pc = "hooks" =>
             /\ file.exists
             /\ Durable = [ok |-> TRUE, steps |-> history]
             /\ Len(history) = i + 1
             /\ history[i + 1] =
                   MergeStep(Pipeline[i + 2].name, target_sha, step.tags_created)
             /\ Range(step.tags_created) = post_tags \ pre_tags

C2_Witness ==
    /\ mode = "run"
    /\ variant = "glisse3"
    /\ pc = "hooks"
    /\ i >= 1
    /\ step.tags_created # <<>>
    /\ Durable.ok
    /\ Durable.steps[i + 1].tags_created = step.tags_created

\* C3: after a forward run that started without a state file, went through a
\* pipeline of two stages or more, whose hooks left the repository alone and
\* whose merges removed no tag, an undo whose git commands all succeed leaves
\* every target branch at the commit it was at before the run, the tags as they
\* were before the run, and no state file
C3_UndoRestores ==
    (/\ invocations = <<"run", "undo">>
     /\ mode = "undo"
     /\ pc = "off"
     /\ exit_code = "0"
     /\ last_run.fresh
     /\ last_run.completed
     /\ last_run.clean
     /\ Len(Pipeline) >= 2
     /\ AllOk)
    => /\ \A k \in 2..Len(Pipeline) :
             refs[Pipeline[k].name] = last_run.refs[Pipeline[k].name]
       /\ tags = last_run.tags
       /\ ~file.exists

\* the git commands of an undo of the log st, newest entry first
UndoOpsOf(e) ==
    [k \in 1..Len(e.tags_created) |-> <<"tag -d", e.tags_created[k]>>]
       \o << <<"checkout", e.target_branch>>, <<"reset --hard", e.original_sha>> >>

UndoOps(st) == Concat([k \in 1..Len(st) |-> UndoOpsOf(st[Len(st) + 1 - k])])

UndoCmds == {"tag -d", "checkout", "reset --hard"}
UndoLoop == {"rollback", "del_tags", "undo_reset"}

\* C4: undo goes through the log [e1, ..., ek] newest first, and for each entry
\* deletes its tags, then checks out its target, then resets to its SHA: what
\* undo has issued is at every moment a beginning of that sequence, and all of
\* it when the loop is over
C4_UndoOrder ==
    (mode = "undo" /\ pc \in UndoLoop) =>
       /\ steps = Durable.steps
       /\ IsPrefix(Issued(UndoCmds), UndoOps(steps))
       /\ Len(Issued(UndoCmds)) = Len(ops)
       /\ (pc = "rollback" /\ u = 0) => Issued(UndoCmds) = UndoOps(steps)

C4_Witness ==
    /\ mode = "undo"
    /\ pc = "rollback"
    /\ u = 0
    /\ Len(Pipeline) = 3
    /\ Len(steps) = 2
    /\ steps[1].tags_created # <<>>
    /\ steps[1].target_branch = Pipeline[2].name
    /\ Issued({"checkout"}) = << <<"checkout", Pipeline[3].name>>,
                                 <<"checkout", Pipeline[2].name>> >>

\* the number of git commands of kind cmd issued so far
CountOps(cmd) == Len(Issued({cmd}))

\* C5: a checkout or merge that fails in transition k ends the run with exit
\* code 1 at once: the tags are not captured again, no hook of that target is
\* called, no later transition is announced, and the state file ends with the
\* provisional record of transition k; when the undo that follows has gone
\* through its loop with every git command succeeding, the target of each of
\* the transitions 0..k is at the SHA recorded for it
C5_FatalFailure ==
    /\ (mode = "run" /\ \E k \in 1..Len(ops) : ops[k].cmd \in Mutating /\ ~ops[k].ok)
          => LET k == last_run.failed_at
             IN  /\ pc = "off"
                 /\ exit_code = "1"
                 /\ k = Len(Printed("Merging")) - 1
                 /\ ops[Len(ops)].cmd \in Mutating
                 /\ ~ops[Len(ops)].ok
                 /\ \A j \in 1..Len(ops) - 1 : ops[j].cmd \in Mutating => ops[j].ok
                 /\ CountOps("tag") = 2 * k + 1
                 /\ \A j \in 1..Len(hooks_run) :
                       hooks_run[j].step.target_branch # Pipeline[k + 2].name
                 /\ out[Len(out)] = Say("Error", <<>>, <<>>)
                 /\ out[Len(out) - 1] = Say("Merging", Pipeline[k + 1].name,
                                            Pipeline[k + 2].name)
                 /\ file.exists
                 /\ Durable.ok
                 /\ Len(Durable.steps) = k + 1
                 /\ Durable.steps[k + 1].target_branch = Pipeline[k + 2].name
                 /\ Durable.steps[k + 1].tags_created = <<>>
    /\ (/\ invocations = <<"run", "undo">>
        /\ last_run.failed_at >= 0
        /\ mode = "undo"
        /\ pc = "rollback"
        /\ u = 0
        /\ AllOk)
          => /\ Len(steps) = last_run.failed_at + 1
             /\ \A j \in 1..Len(steps) :
                   /\ steps[j].target_branch = Pipeline[j + 1].name
                   /\ refs[steps[j].target_branch] = steps[j].original_sha

C5_Witness ==
    /\ invocations = <<"run", "undo">>
    /\ last_run.failed_at = 1
    /\ mode = "undo"
    /\ pc = "rollback"
    /\ u = 0
    /\ AllOk
    /\ Len(steps) = 2
    /\ refs[steps[1].target_branch] = steps[1].original_sha
    /\ CountOps("reset --hard") = 2

\* C6: a `git rev-parse` of the target, or the `git tag` before it, that fails
\* is the last thing the run does (nothing is issued after it), and every
\* record in the state file holds in original_sha a commit identifier
C6_PreCaptureFatal ==
    mode = "run" =>
       /\ \A k \in 1..Len(ops) - 1 :
             /\ ops[k].cmd = "rev-parse" => ops[k].ok
             /\ (ops[k].cmd = "tag" /\ ops[k + 1].cmd = "rev-parse") => ops[k].ok
       /\ (file.exists /\ Durable.ok) =>
             \A k \in 1..Len(Durable.steps) : Durable.steps[k].original_sha \in Commits

\* C7: once the tags have been captured after the merge, tags_created of the
\* step holds the tags captured after the merge that were not captured before
\* it, each once, none that was there before (whether it still is or was removed
\* by the merge); the last record of the history is that step
C7_TagDiff ==
    (mode = "run" /\ (pc = "hooks" \/ (pc = "write" /\ ret = "hooks"))) =>
       /\ Range(step.tags_created) = {t \in post_tags : t \notin pre_tags}
       /\ Len(step.tags_created) = Cardinality(Range(step.tags_created))
       /\ Range(step.tags_created) \cap pre_tags = {}
       /\ history[Len(history)] = step
       /\ (ops[Len(ops)].ok /\ hk = 0) => post_tags = tags

C7_Witness ==
    /\ mode = "run"
    /\ pc = "hooks"
    /\ step.tags_created # <<>>
    /\ pre_tags \ post_tags # {}
    /\ AllOk

\* C8: a history whose names hold no space, comma or newline, saved and loaded
\* back, is read without error as the same records in the same order, field for
\* field
C8_RoundTrip ==
    (invocations = <<"save", "load">> /\ DelimiterFree(history)) =>
       /\ exit_code = "0"
       /\ Len(steps) = Len(history)
       /\ \A k \in 1..Len(history) :
             /\ steps[k].target_branch = history[k].target_branch
             /\ steps[k].original_sha = history[k].original_sha
             /\ steps[k].tags_created = history[k].tags_created

C8_Witness ==
    /\ invocations = <<"save", "load">>
    /\ variant = "glisse3"
    /\ DelimiterFree(history)
    /\ Len(history) = 2
    /\ history[1].tags_created = <<>>
    /\ Len(history[2].tags_created) = 2
    /\ steps = history

\* C9: an undo that finds no state file prints "Nothing to unwind." and ends
\* with exit code 0, having issued no git command and changed neither the
\* repository nor the file
C9_NoLogNoOp ==
    [][(mode = "undo" /\ pc = "unwind" /\ ~file.exists) =>
          /\ pc' = "off"
          /\ exit_code' = "0"
          /\ out' = <<Say("Nothing to unwind.", <<>>, <<>>)>>
          /\ ops = <<>>
          /\ ops' = <<>>
          /\ UNCHANGED <<repo, file>>]_vars

C9_Witness ==
    /\ invocations = <<"run", "undo", "undo">>
    /\ mode = "undo"
    /\ pc = "off"
    /\ exit_code = "0"
    /\ ~file.exists
    /\ ops = <<>>
    /\ out = <<Say("Nothing to unwind.", <<>>, <<>>)>>

\* C10: whichever of its git commands fail, undo goes through every step of the
\* log once, newest first, issuing the checkout and the reset of each, and the
\* only way out of its loop is the end of the log, where the state file is
\* removed and undo ends with exit code 0
C10_UndoTotal ==
    /\ [](mode = "undo" /\ pc \in UndoLoop =>
            /\ Issued({"checkout"}) =
                  [k \in 1..Len(Issued({"checkout"})) |->
                     <<"checkout", steps[Len(steps) + 1 - k].target_branch>>]
            /\ Printed("Rolling back") =
                  [k \in 1..Len(steps) - u + (IF pc = "rollback" THEN 0 ELSE 1) |->
                     Say("Rolling back", steps[Len(steps) + 1 - k].target_branch, <<>>)]
            /\ (pc = "rollback" /\ u = 0) =>
                  /\ CountOps("checkout") = Len(steps)
                  /\ CountOps("reset --hard") = Len(steps))
    /\ [][(mode = "undo" /\ pc \in UndoLoop /\ pc' \notin UndoLoop) =>
             /\ pc = "rollback"
             /\ u = 0
             /\ pc' = "off"
             /\ exit_code' = "0"
             /\ ~file'.exists
             /\ out' = Append(out, Say("Unwind complete.", <<>>, <<>>))]_vars

C10_Witness ==
    /\ mode = "undo"
    /\ pc = "off"
    /\ exit_code = "0"
    /\ ~file.exists
    /\ CountOps("checkout") = 2
    /\ CountOps("reset --hard") = 2
    /\ \E k \in 1..Len(ops) : ~ops[k].ok
    /\ \E k \in 1..Len(ops) : ops[k].cmd = "reset --hard" /\ ops[k].ok

\* the calls of the first n hooks of the target of the j-th transition of P, in
\* the order of attachment, with the step st and the source's name
HookCallsOf(P, j, st, n) ==
    [m \in 1..n |-> [hook |-> P[j + 1].hooks[m].id, step |-> st, source |-> P[j].name]]

\* the hook calls when `done` transitions are through and n hooks of the next
\* have been called, hist holding the steps
HookCalls(P, hist, done, n) ==
    Concat([j \in 1..done |-> HookCallsOf(P, j, hist[j], Len(P[j + 1].hooks))])
       \o (IF n > 0 THEN HookCallsOf(P, done + 1, hist[done + 1], n) ELSE <<>>)

MergesDone == Len(SelectSeq(ops, LAMBDA o : o.cmd = "merge" /\ o.ok))

\* C11: the hook calls of a forward run are, for each transition whose merge
\* succeeded and in the order of the transitions, the hooks of the target in the
\* order they were attached, each once, with the finalized step and the source's
\* name; they are made when the finalized record is in the state file and the
\* five git commands of the transition are over, and nothing of the next
\* transition is done before the last of them; no hook of the start stage and
\* none of a target whose checkout or merge failed is called
C11_HookOrder ==
    (mode = "run" /\ invocations # <<>>) =>
       /\ pc \notin {"off", "hooks"} =>
             /\ hooks_run = HookCalls(Pipeline, history, i, 0)
             /\ Len(ops) \in (5 * i)..(5 * i + 5)
             /\ Len(ops) = 5 * i + 5 => (pc = "write" /\ ret = "hooks")
       /\ pc = "hooks" =>
             /\ hooks_run = HookCalls(Pipeline, history, i, hk)
             /\ history[i + 1] = step
             /\ file.exists
             /\ file.text = save_state(history)
             /\ Len(ops) = 5 * (i + 1)
             /\ ops[Len(ops)].cmd = "tag"
       /\ (pc = "off" /\ exit_code \in {"0", "1"}) =>
             /\ hooks_run = HookCalls(Pipeline, Durable.steps, MergesDone, 0)
             /\ \A k \in 1..Len(hooks_run) : hooks_run[k].hook[1] # 1

C11_Witness ==
    /\ mode = "run"
    /\ pc = "off"
    /\ exit_code = "1"
    /\ last_run.failed_at = 1
    /\ Len(hooks_run) = 2
    /\ hooks_run[1].hook = <<2, 1>>
    /\ hooks_run[2].hook = <<2, 2>>
    /\ hooks_run[2].step.tags_created # <<>>
    /\ hooks_run[2].source = dev

\* the history the last save_state that returned has written, while the process
\* of a forward run is at pc: during a save_state it is the history less the
\* record just pushed, or with the tags just computed still missing
LastSaved ==
    IF pc = "write" /\ ret = "checkout" THEN SubSeq(history, 1, Len(history) - 1)
    ELSE IF pc = "write" /\ ret = "hooks"
    THEN [history EXCEPT ![Len(history)].tags_created = <<>>]
    ELSE history

\* the state file, as the next state has it, reads back as the history h in full
\* (no file standing for the empty history)
LogWillBe(h) ==
    IF file'.exists THEN ReadBack(file'.text) = [ok |-> TRUE, steps |-> h]
    ELSE h = <<>>

\* C12: when the process of a forward run is stopped, at whatever point, the
\* state file reads back as the history last saved in full or as the history
\* being saved in full
C12_CrashConsistent ==
    [][(mode = "run" /\ pc # "off" /\ exit_code' = "killed") =>
          (LogWillBe(LastSaved) \/ LogWillBe(history))]_vars

\* the chain is the one main() configures
IsMainChain ==
    \/ variant = "glisse" /\ start_node = MainBox
    \/ variant = "glisse3" /\ heap = MainHeap

NamesOf(P) == [k \in 1..Len(P) |-> P[k].name]

\* C13: for the chain main() configures the pipeline is [dev, staging, main], and
\* when a forward run over it has completed the state file holds two records,
\* the first for staging with the commit staging was at before the run, the
\* second for main with the commit main was at before the run, and the hook of
\* staging and the hook of main have been called once each, in that order
C13_MainScenario ==
    (IsMainChain /\ mode = "run" /\ pc = "off" /\ exit_code = "0") =>
             /\ NamesOf(Pipeline) = <<dev, staging, main>>
             /\ file.exists
             /\ Durable.ok
             /\ Len(Durable.steps) = 2
             /\ Durable.steps[1].target_branch = staging
             /\ Durable.steps[1].original_sha = last_run.refs[staging]
             /\ Durable.steps[2].target_branch = main
             /\ Durable.steps[2].original_sha = last_run.refs[main]
             /\ [k \in 1..Len(hooks_run) |-> hooks_run[k].hook] = << <<2, 1>>, <<3, 1>> >>

\* C14: while undo works on a record of the log, a step of it changes the
\* commit of no branch other than the record's target_branch
C14_ResetFrame ==
    [][(mode = "undo" /\ pc \in {"del_tags", "undo_reset"}) =>
          \A b \in BranchNames :
             refs'[b] # refs[b] => b = steps[u].target_branch]_vars

\* the transitions a forward run has announced
Announced == Len(Printed("Merging"))

\* C15: a forward run only issues a checkout or a merge when the state file
\* reads back as the whole history, the last record being the one of the
\* transition at hand; and a run that ended because the state file could not be
\* created or written while the provisional record was being saved has issued
\* neither the checkout nor the merge of that transition
C15_StorageFatal ==
    /\ [](mode = "run" =>
            /\ pc \in {"checkout", "merge"} =>
                  /\ file.exists
                  /\ Durable = [ok |-> TRUE, steps |-> history]
                  /\ history[Len(history)].target_branch = Pipeline[i + 2].name
            /\ exit_code = "101" =>
                  /\ pc = "off"
                  /\ ops[Len(ops)].cmd \in Queries
                  /\ CountOps("tag") = 2 * Announced - 1
                        => Len(Issued(Mutating)) = 2 * (Announced - 1))
    /\ [][(mode = "run" /\ pc \in {"push", "write"} /\ ret' = "checkout")
             => (ops' = ops /\ Len(Issued(Mutating)) = 2 * i)]_vars

C15_Witness ==
    /\ mode = "run"
    /\ pc = "off"
    /\ exit_code = "101"
    /\ Announced = 2
    /\ CountOps("tag") = 3
    /\ Len(Issued(Mutating)) = 2
    /\ file.exists
    /\ Len(Durable.steps) = 1

\* C16: an undo that went through a log leaves no state file, and the undo
\* right after an undo issues no git command and changes neither the repository
\* nor the state file, from its start to its end
C16_UndoIdempotent ==
    /\ [](mode = "undo" /\ pc = "off" /\ Len(Printed("Unwind complete.")) > 0
             => ~file.exists)
    /\ [][invocations' = <<"run", "undo", "undo">> =>
             /\ UNCHANGED <<repo, file>>
             /\ ops' = <<>>
             /\ pc' = "off" => (pc = "unwind" /\ exit_code' = "0")]_vars

C16_Witness ==
    /\ invocations = <<"run", "undo", "undo">>
    /\ pc = "off"
    /\ exit_code = "0"
    /\ last_run.completed
    /\ Len(Pipeline) = 3
    /\ ~file.exists
    /\ ops = <<>>
    /\ \A k \in 2..3 : refs[Pipeline[k].name] = last_run.refs[Pipeline[k].name]

\* the pipeline the other source variant materializes from the same
\* configuration: main(), or the chain of as many stages put together in the
\* same order
Counterpart ==
    IF variant = "glisse"
    THEN IF start_node = MainBox THEN get_pipeline_rc(MainHeap, 1)
         ELSE get_pipeline_rc(ChainHeap(Len(Pipeline)), 1)
    ELSE IF heap = MainHeap THEN get_pipeline_box(MainBox)
         ELSE get_pipeline_box(ChainBox(1, Len(Pipeline)))

HookIdsOf(P) == Concat([j \in 1..Len(P) - 1 |->
                          [m \in 1..Len(P[j + 1].hooks) |-> P[j + 1].hooks[m].id]])

\* C17: what either variant does is what the other does from the same
\* configuration: the checkouts and merges of a forward run are a beginning of
\* those the other variant's pipeline calls for, and when the run has completed
\* they are all of them, the hooks called are the hooks the other variant calls,
\* and the state file holds one record for each target of the other variant's
\* pipeline, in order
C17_VariantsAgree ==
    mode = "run" =>
       /\ IsPrefix(Issued(Mutating), ForwardOps(Counterpart))
       /\ (pc = "off" /\ exit_code = "0") =>
             /\ Issued(Mutating) = ForwardOps(Counterpart)
             /\ [k \in 1..Len(hooks_run) |-> hooks_run[k].hook] = HookIdsOf(Counterpart)
             /\ Len(Pipeline) >= 2 =>
                   [k \in 1..Len(Durable.steps) |-> Durable.steps[k].target_branch]
                      = Tail(NamesOf(Counterpart))

\* C18: the pipeline has a stage at least, so that pipeline.len() - 1 is no less
\* than 0; a forward run over a pipeline of one stage issues no git command,
\* calls no hook, leaves the repository as it was, writes no state file, and
\* ends with "Pipeline Complete." and exit code 0
C18_SingleStage ==
    /\ Len(Pipeline) >= 1
    /\ Len(Pipeline) - 1 >= 0
    /\ (Len(Pipeline) = 1 /\ mode = "run" /\ invocations # <<>>) =>
          /\ pc \in {"loop", "off"}
          /\ ops = <<>>
          /\ hooks_run = <<>>
          /\ history = <<>>
          /\ ~file.exists
          /\ refs = last_run.refs
          /\ tags = last_run.tags
          /\ Printed("Merging") = <<>>
          /\ pc = "off" =>
                /\ exit_code = "0"
                /\ out = <<Say("Pipeline Complete.", <<>>, <<>>)>>

C18_Witness ==
    /\ Len(Pipeline) = 1
    /\ Len(Pipeline[1].hooks) > 0
    /\ mode = "run"
    /\ invocations = <<"run">>
    /\ pc = "off"
    /\ exit_code = "0"
    /\ out = <<Say("Pipeline Complete.", <<>>, <<>>)>>

\* h2 is h1 with one record appended that has no tags
AppendsProvisional(h1, h2) ==
    /\ Len(h2) = Len(h1) + 1
    /\ SubSeq(h2, 1, Len(h1)) = h1
    /\ h2[Len(h2)].tags_created = <<>>

\* h2 is h1 but for the tags of the last record
RetagsLast(h1, h2) ==
    /\ Len(h2) = Len(h1)
    /\ Len(h1) > 0
    /\ \A k \in 1..Len(h1) :
          /\ h2[k].target_branch = h1[k].target_branch
          /\ h2[k].original_sha = h1[k].original_sha
          /\ k < Len(h1) => h2[k].tags_created = h1[k].tags_created

\* C19: within a forward run the history only changes by a provisional record
\* being appended or by the tags of its last record being set; each save_state
\* that returns has written the history, which differs in one of these two ways
\* from what the save_state before it wrote; and once transition i is finalized
\* the state file holds i+1 records whose targets are the stages after the start
\* stage, in order
C19_LogMonotone ==
    /\ [](mode = "run" /\ pc = "hooks" =>
             /\ Len(history) = i + 1
             /\ [k \in 1..Len(history) |-> history[k].target_branch]
                   = SubSeq(NamesOf(Pipeline), 2, i + 2)
             /\ Durable = [ok |-> TRUE, steps |-> history])
    /\ [][(mode = "run" /\ pc # "off" /\ pc' # "off") =>
             \/ history' = history
             \/ AppendsProvisional(history, history')
             \/ RetagsLast(history, history')]_vars
    /\ [][(mode = "run" /\ pc = "write" /\ pc' \notin {"write", "off"}) =>
             /\ file'.exists
             /\ ReadBack(file'.text) = [ok |-> TRUE, steps |-> history]
             /\ IF ret = "checkout" THEN AppendsProvisional(LastSaved, history)
                ELSE RetagsLast(LastSaved, history)]_vars

C19_Witness ==
    /\ mode = "run"
    /\ variant = "glisse"
    /\ pc = "hooks"
    /\ i = 1
    /\ Len(history) = 2
    /\ history[1].tags_created # <<>>
    /\ history[2].tags_created = <<>>
    /\ Durable.steps = history

\* C20: a forward run starts with an empty history, so that from its first
\* save_state on the state file holds the records of that run only, whatever an
\* earlier run left there, each with the commit its target was at when the run
\* started; and the undo after two forward runs, when its git commands all
\* succeed, has put each recorded target back at the commit it was at when the
\* second run started and has deleted no tag but those in the second run's
\* records
C20_LatestRunOnly ==
    /\ (mode = "run" /\ pc = "loop" /\ i = 0) => history = <<>>
    /\ (mode = "run" /\ pc \in {"checkout", "merge", "post_capture", "hooks"}) =>
          /\ Durable = [ok |-> TRUE, steps |-> history]
          /\ Len(history) = i + 1
          /\ \A k \in 1..Len(history) :
                /\ history[k].target_branch = Pipeline[k + 1].name
                /\ last_run.refs[Pipeline[k + 1].name] # NoRef
                      => history[k].original_sha = last_run.refs[Pipeline[k + 1].name]
    /\ (invocations = <<"run", "run", "undo">> /\ pc = "rollback" /\ u = 0 /\ AllOk) =>
          /\ \A k \in 1..Len(steps) :
                /\ steps[k].target_branch = Pipeline[k + 1].name
                /\ refs[steps[k].target_branch] = last_run.refs[steps[k].target_branch]
          /\ \A k \in 1..Len(ops) : ops[k].cmd = "tag -d" => ops[k].arg \in TagsIn(steps)

C20_Witness ==
    /\ invocations = <<"run", "run", "undo">>
    /\ pc = "rollback"
    /\ u = 0
    /\ AllOk
    /\ Len(steps) = 2
    /\ refs[Pipeline[2].name] = last_run.refs[Pipeline[2].name]
    /\ refs[Pipeline[2].name] # Sha(2)
    /\ refs[Pipeline[3].name] # Sha(3)
    /\ CountOps("tag -d") > 0

=============================================================================
